---- MODULE Spec2Model ----
(***************************************************************************)
(* Model of src/src/config_libconfig.c: locating the configuration file    *)
(* (open_config_file), reading it, and filling the option record           *)
(* (parse_config_libconfig, parse_cfg_condlst, parse_cfg_condlst_opct).    *)
(*                                                                         *)
(* Floating point values are integers in hundredths (1.0 is 100).  A       *)
(* parsed document is a function from the keys it contains to tagged       *)
(* values [t, v]; a key outside its domain is absent.  A path is a         *)
(* sequence of its components.                                             *)
(***************************************************************************)
EXTENDS Integers, Sequences, FiniteSets, TLC

VARIABLES
  pc,               \* position of the load: see PcValues
  env,              \* the caller's argument and the file system: cpath, home, xdg, openable
  file,             \* content of the configuration file: [syntax_ok, doc]
  pre,              \* the caller's record when parse_config_libconfig is entered
  f,                \* FILE* of parse_config_libconfig: "NULL" or "FILE"
  path,             \* char *path of parse_config_libconfig: <<>> is NULL
  xdg_i,            \* loop index i of open_config_file, lines 56-66
  tried,            \* the paths handed to fopen, in order
  cfg,              \* config_t cfg: the parsed document
  opt,              \* options_t *opt, scalar fields and pattern lists
  wintype_option,   \* opt->wintype_option[]
  winopt_mask,      \* win_option_mask_t *winopt_mask
  shadow_enable,    \* bool *shadow_enable
  fading_enable,    \* bool *fading_enable
  conv_kern_hasneg, \* bool *conv_kern_hasneg
  log_level,        \* the logger's level, set by log_set_level_tls
  log,              \* messages handed to log_warn / log_error / log_fatal, in order
  retval            \* what parse_config_libconfig returned: "none", "NULL" or "path"

vars == <<pc, env, file, pre, f, path, xdg_i, tried, cfg, opt, wintype_option,
          winopt_mask, shadow_enable, fading_enable, conv_kern_hasneg,
          log_level, log, retval>>

(***************************************************************************)
(* Bounds of the model.                                                    *)
(***************************************************************************)
\* the most entries of a document drawn from all the keys
MaxPresent == 1
\* the most entries of a document drawn from the critical keys
MaxCritical == 2
\* the longest array a document gives a list key
MaxLen == 2

NULL == "NULL"

Min(a, b) == IF a < b THEN a ELSE b
Max(a, b) == IF a > b THEN a ELSE b

(***************************************************************************)
(* Collaborators outside this file.                                        *)
(***************************************************************************)
\* normalize_d: clamp a double into [0, 1]
normalize_d(d) == Max(0, Min(100, d))

\* x * OPAQUE, kept symbolic: the fraction of OPAQUE in hundredths
MulOpaque(x) == [opaque_hundredths |-> x]

VSYNC_STRS == <<"none", "drm", "opengl", "opengl-oml", "opengl-swc", "opengl-mswc">>
NUM_VSYNC == Len(VSYNC_STRS)
BACKEND_STRS == <<"xrender", "glx", "xr_glx_hybrid">>
NUM_BKEND == Len(BACKEND_STRS)
SWAP_METHOD_STRS == <<"undefined", "copy", "exchange">>
LOG_LEVEL_STRS == <<"trace", "debug", "info", "warn", "error", "fatal">>
LOG_LEVEL_INVALID == Len(LOG_LEVEL_STRS)

\* index of s in the table strs (from 0), Len(strs) when s is not in it
IndexOf(strs, s) ==
  IF \E i \in 1..Len(strs) : strs[i] = s
    THEN (CHOOSE i \in 1..Len(strs) : strs[i] = s) - 1
    ELSE Len(strs)

parse_vsync(s) == IndexOf(VSYNC_STRS, s)
parse_backend(s) == IndexOf(BACKEND_STRS, s)
string_to_log_level(s) == IndexOf(LOG_LEVEL_STRS, s)
\* parse_glx_swap_method: -2 for a string it does not know
parse_glx_swap_method(s) ==
  IF IndexOf(SWAP_METHOD_STRS, s) < Len(SWAP_METHOD_STRS)
    THEN IndexOf(SWAP_METHOD_STRS, s) ELSE 0 - 2

\* the pattern strings the pattern parser accepts, among those documents use
ValidPatterns == {"class_g = 'x'", "name = 'y'"}
\* the opacity rules parse_rule_opacity accepts
ValidRules == {"80:class_g = 'x'", "90:name = 'y'"}
\* the kernel lists parse_conv_kern_lst accepts
ValidKernels == {"3x3box", "1,1,-1"}

\* condlst_add: the parsed pattern becomes the head of the list; a string the
\* pattern parser rejects is dropped
condlst_add(lst, pattern) ==
  IF pattern \in ValidPatterns THEN <<pattern>> \o lst ELSE lst

\* parse_rule_opacity: as condlst_add, and reports failure
parse_rule_opacity(lst, rule) ==
  IF rule \in ValidRules THEN [ok |-> TRUE, lst |-> <<rule>> \o lst]
                         ELSE [ok |-> FALSE, lst |-> lst]

\* parse_conv_kern_lst: the kernels and whether one has a negative weight
parse_conv_kern_lst(s) ==
  [ok |-> s \in ValidKernels, kerns |-> <<s>>, hasneg |-> (s = "1,1,-1")]

(***************************************************************************)
(* libconfig, as this file uses it.  config_set_auto_convert(&cfg, 1)      *)
(* makes the number lookups accept both number types; every lookup leaves  *)
(* its output untouched and returns CONFIG_FALSE for an absent key or a    *)
(* value of another type.                                                  *)
(***************************************************************************)
NotFound == [ok |-> FALSE]
Found(v) == [ok |-> TRUE, v |-> v]

Trunc100(x) == IF x >= 0 THEN x \div 100 ELSE 0 - ((0 - x) \div 100)

config_lookup_int(c, key) ==
  IF key \notin DOMAIN c THEN NotFound
  ELSE IF c[key].t = "int" THEN Found(c[key].v)
  ELSE IF c[key].t = "float" THEN Found(Trunc100(c[key].v))
  ELSE NotFound

config_lookup_float(c, key) ==
  IF key \notin DOMAIN c THEN NotFound
  ELSE IF c[key].t = "float" THEN Found(c[key].v)
  ELSE IF c[key].t = "int" THEN Found(c[key].v * 100)
  ELSE NotFound

config_lookup_bool(c, key) ==
  IF key \in DOMAIN c /\ c[key].t = "bool" THEN Found(c[key].v) ELSE NotFound

config_lookup_string(c, key) ==
  IF key \in DOMAIN c /\ c[key].t = "str" THEN Found(c[key].v) ELSE NotFound

\* config_lookup: the setting itself
config_lookup(c, key) ==
  IF key \in DOMAIN c THEN Found(c[key]) ELSE NotFound

(***************************************************************************)
(* The keys of lines 186-368 in the order the loader looks them up, each   *)
(* with the way it is read and the field of options_t it is written to.    *)
(***************************************************************************)
K(key, kind, field) == [key |-> key, kind |-> kind, field |-> field]

KeySeq == <<
  K("fade-delta", "int_ival", "fade_delta"),
  K("fade-in-step", "opaque", "fade_in_step"),
  K("fade-out-step", "opaque", "fade_out_step"),
  K("shadow-radius", "int", "shadow_radius"),
  K("shadow-opacity", "float", "shadow_opacity"),
  K("shadow-offset-x", "int", "shadow_offset_x"),
  K("shadow-offset-y", "int", "shadow_offset_y"),
  K("inactive-opacity", "opaque", "inactive_opacity"),
  K("active-opacity", "opaque", "active_opacity"),
  K("frame-opacity", "float", "frame_opacity"),
  K("shadow", "shadow_enable", "-"),
  K("no-dock-shadow", "no_shadow", "dock"),
  K("no-dnd-shadow", "no_shadow", "dnd"),
  K("menu-opacity", "menu_opacity", "-"),
  K("fading", "fading_enable", "-"),
  K("no-fading-openclose", "bool", "no_fading_openclose"),
  K("no-fading-destroyed-argb", "bool", "no_fading_destroyed_argb"),
  K("shadow-red", "float", "shadow_red"),
  K("shadow-green", "float", "shadow_green"),
  K("shadow-blue", "float", "shadow_blue"),
  K("shadow-exclude-reg", "string", "shadow_exclude_reg_str"),
  K("inactive-opacity-override", "bool", "inactive_opacity_override"),
  K("inactive-dim", "float", "inactive_dim"),
  K("mark-wmwin-focused", "bool", "mark_wmwin_focused"),
  K("mark-ovredir-focused", "bool", "mark_ovredir_focused"),
  K("shadow-ignore-shaped", "bool", "shadow_ignore_shaped"),
  K("detect-rounded-corners", "bool", "detect_rounded_corners"),
  K("xinerama-shadow-crop", "bool", "xinerama_shadow_crop"),
  K("detect-client-opacity", "bool", "detect_client_opacity"),
  K("refresh-rate", "int", "refresh_rate"),
  K("vsync", "vsync", "vsync"),
  K("backend", "backend", "backend"),
  K("log-level", "log_level", "-"),
  K("sw-opti", "bool", "sw_opti"),
  K("use-ewmh-active-win", "bool", "use_ewmh_active_win"),
  K("unredir-if-possible", "bool", "unredir_if_possible"),
  K("unredir-if-possible-delay", "int_ival", "unredir_if_possible_delay"),
  K("inactive-dim-fixed", "bool", "inactive_dim_fixed"),
  K("detect-transient", "bool", "detect_transient"),
  K("detect-client-leader", "bool", "detect_client_leader"),
  K("shadow-exclude", "condlst", "shadow_blacklist"),
  K("fade-exclude", "condlst", "fade_blacklist"),
  K("focus-exclude", "condlst", "focus_blacklist"),
  K("invert-color-include", "condlst", "invert_color_list"),
  K("blur-background-exclude", "condlst", "blur_background_blacklist"),
  K("opacity-rule", "condlst_opct", "opacity_rules"),
  K("unredir-if-possible-exclude", "condlst", "unredir_if_possible_blacklist"),
  K("blur-background", "bool", "blur_background"),
  K("blur-background-frame", "bool", "blur_background_frame"),
  K("blur-background-fixed", "bool", "blur_background_fixed"),
  K("blur-kern", "blur_kern", "blur_kerns"),
  K("resize-damage", "int", "resize_damage"),
  K("glx-no-stencil", "bool", "glx_no_stencil"),
  K("glx-no-rebind-pixmap", "bool", "glx_no_rebind_pixmap"),
  K("glx-swap-method", "glx_swap_method", "glx_swap_method"),
  K("glx-use-gpushader4", "bool", "glx_use_gpushader4"),
  K("xrender-sync", "bool", "xrender_sync"),
  K("xrender-sync-fence", "bool", "xrender_sync_fence") >>

\* position of a key in the loader's sequence
KeyPos(key) == CHOOSE i \in 1..Len(KeySeq) : KeySeq[i].key = key

\* the removed options of lines 370-386: the key, how it is looked up, and
\* whether the warning needs the value to be true
DeprecatedSeq == <<
  [key |-> "clear-shadow", kind |-> "bool", truthy |-> FALSE],
  [key |-> "paint-on-overlay", kind |-> "bool", truthy |-> FALSE],
  [key |-> "alpha-step", kind |-> "float", truthy |-> FALSE],
  [key |-> "glx-use-copysubbuffermesa", kind |-> "bool", truthy |-> TRUE],
  [key |-> "glx-copy-from-front", kind |-> "bool", truthy |-> TRUE] >>

\* the window types and the fields of win_option_t
WINTYPES == <<"dock", "normal", "dropdown_menu", "popup_menu", "dnd">>
NUM_WINTYPES == Len(WINTYPES)
WintypeSet == {WINTYPES[i] : i \in 1..NUM_WINTYPES}
WinBoolFields == <<"shadow", "fade", "focus", "full_shadow", "redir_ignore">>
WinFields == {"shadow", "fade", "focus", "full_shadow", "redir_ignore", "opacity"}
\* the name of a field of win_option_t in the document
WinKeyName(fld) ==
  CASE fld = "full_shadow" -> "full-shadow"
    [] fld = "redir_ignore" -> "redir-ignore"
    [] OTHER -> fld

\* the fields of options_t a key of KeySeq is written to
OptFields == {KeySeq[i].field : i \in 1..Len(KeySeq)} \ {"-", "dock", "dnd"}

(***************************************************************************)
(* The record the load fills: S bundles what parse_config_libconfig can    *)
(* write, and exited tells whether exit(1) was called.                     *)
(***************************************************************************)
Warn(S, key) == [S EXCEPT !.log = Append(@, [lvl |-> "warn", key |-> key])]
Fatal(S, key) == [S EXCEPT !.log = Append(@, [lvl |-> "fatal", key |-> key]),
                           !.exited = TRUE]
Exit(S) == [S EXCEPT !.exited = TRUE]

\* lines 187-188, 196, 200, 202, 277, 312-313, 350
AssignInt(S, c, e) ==
  LET r == config_lookup_int(c, e.key)
  IN IF r.ok THEN [S EXCEPT !.opt[e.field] = r.v] ELSE S

\* lines 190-194, 204-208
AssignOpaque(S, c, e) ==
  LET r == config_lookup_float(c, e.key)
  IN IF r.ok THEN [S EXCEPT !.opt[e.field] = MulOpaque(normalize_d(r.v))] ELSE S

\* lines 198, 210, 246-250, 258
AssignFloat(S, c, e) ==
  LET r == config_lookup_float(c, e.key)
  IN IF r.ok THEN [S EXCEPT !.opt[e.field] = r.v] ELSE S

\* lcfg_lookup_bool that copies ival whether or not the key was found
lcfg_lookup_bool_unconditional(S, c, e) ==
  LET r == config_lookup_bool(c, e.key)
  IN [S EXCEPT !.opt[e.field] = IF r.ok THEN r.v ELSE FALSE]

\* lcfg_lookup_bool
lcfg_lookup_bool(S, c, e) ==
  LET r == config_lookup_bool(c, e.key)
  IN IF r.ok THEN [S EXCEPT !.opt[e.field] = r.v] ELSE S

\* lines 212-213
AssignShadowEnable(S, c, e) ==
  LET r == config_lookup_bool(c, e.key)
  IN IF r.ok THEN [S EXCEPT !.shadow_enable = r.v] ELSE S

\* lines 238-239
AssignFadingEnable(S, c, e) ==
  LET r == config_lookup_bool(c, e.key)
  IN IF r.ok THEN [S EXCEPT !.fading_enable = r.v] ELSE S

\* lines 215-227 without the write to winopt_mask
NoShadow_no_mask(S, c, e) ==
  LET r == config_lookup_bool(c, e.key)
  IN IF r.ok
       THEN [Warn(S, e.key) EXCEPT !.wintype_option[e.field].shadow = FALSE]
       ELSE S

\* lines 215-227: no-dock-shadow and no-dnd-shadow, e.field the window type
NoShadow(S, c, e) ==
  LET r == config_lookup_bool(c, e.key)
  IN IF r.ok
       THEN [Warn(S, e.key) EXCEPT !.wintype_option[e.field].shadow = FALSE,
                                   !.winopt_mask[e.field].shadow = TRUE]
       ELSE S

\* lines 229-236
MenuOpacity(S, c, e) ==
  LET r == config_lookup_float(c, e.key)
  IN IF r.ok
       THEN [Warn(S, e.key) EXCEPT
               !.wintype_option["dropdown_menu"].opacity = r.v,
               !.wintype_option["popup_menu"].opacity = r.v,
               !.winopt_mask["dropdown_menu"].opacity = TRUE,
               !.winopt_mask["popup_menu"].opacity = TRUE]
       ELSE S

\* lines 252-253
AssignString(S, c, e) ==
  LET r == config_lookup_string(c, e.key)
  IN IF r.ok THEN [S EXCEPT !.opt[e.field] = r.v] ELSE S

\* lines 279-285 without the exit
Vsync_no_exit(S, c, e) ==
  LET r == config_lookup_string(c, e.key)
  IN IF r.ok THEN [S EXCEPT !.opt.vsync = parse_vsync(r.v)] ELSE S

\* lines 279-285
Vsync(S, c, e) ==
  LET r == config_lookup_string(c, e.key)
      T == [S EXCEPT !.opt.vsync = parse_vsync(r.v)]
  IN IF r.ok
       THEN IF T.opt.vsync >= NUM_VSYNC THEN Fatal(T, e.key) ELSE T
       ELSE S

\* lines 287-293
Backend(S, c, e) ==
  LET r == config_lookup_string(c, e.key)
      T == [S EXCEPT !.opt.backend = parse_backend(r.v)]
  IN IF r.ok
       THEN IF T.opt.backend >= NUM_BKEND THEN Fatal(T, e.key) ELSE T
       ELSE S

\* lines 295-302
LogLevel(S, c, e) ==
  LET r == config_lookup_string(c, e.key)
      level == string_to_log_level(r.v)
  IN IF r.ok
       THEN IF level = LOG_LEVEL_INVALID THEN Warn(S, e.key)
                                          ELSE [S EXCEPT !.log_level = level]
       ELSE S

\* the loop of lines 94-96 running from the first element to the last
RECURSIVE CondlstLoop_forward(_, _, _)
CondlstLoop_forward(lst, arr, i) ==
  IF i = 0 THEN lst
  ELSE condlst_add(CondlstLoop_forward(lst, arr, i - 1), arr[i])

\* lines 94-96: i = config_setting_length(setting); while (i--) condlst_add(...)
RECURSIVE CondlstLoop(_, _, _)
CondlstLoop(lst, arr, i) ==
  IF i = 0 THEN lst ELSE CondlstLoop(condlst_add(lst, arr[i]), arr, i - 1)

\* parse_cfg_condlst
parse_cfg_condlst(S, c, e) ==
  LET setting == config_lookup(c, e.key)
  IN IF ~setting.ok THEN S
     ELSE IF setting.v.t = "arr"
       THEN [S EXCEPT !.opt[e.field] = CondlstLoop(@, setting.v.elems, Len(setting.v.elems))]
     ELSE IF setting.v.t = "str"
       THEN [S EXCEPT !.opt[e.field] = condlst_add(@, setting.v.v)]
     ELSE S

\* lines 114-118: the loop stops at the first rule that fails, with exit(1)
RECURSIVE OpctLoop(_, _, _)
OpctLoop(lst, arr, i) ==
  IF i = 0 THEN [ok |-> TRUE, lst |-> lst]
  ELSE LET r == parse_rule_opacity(lst, arr[i])
       IN IF r.ok THEN OpctLoop(r.lst, arr, i - 1) ELSE r

\* parse_cfg_condlst_opct that skips a rule it cannot parse
parse_cfg_condlst_opct_no_exit(S, c, e) ==
  LET setting == config_lookup(c, e.key)
      arr == IF setting.v.t = "arr" THEN setting.v.elems ELSE <<setting.v.v>>
      IsRule(x) == x \in ValidRules
  IN IF setting.ok /\ setting.v.t \in {"arr", "str"}
       THEN [S EXCEPT !.opt[e.field] = SelectSeq(arr, IsRule) \o @]
       ELSE S

\* parse_cfg_condlst_opct
parse_cfg_condlst_opct(S, c, e) ==
  LET setting == config_lookup(c, e.key)
      ra == OpctLoop(S.opt[e.field], setting.v.elems, Len(setting.v.elems))
      rs == parse_rule_opacity(S.opt[e.field], setting.v.v)
  IN IF ~setting.ok THEN S
     ELSE IF setting.v.t = "arr"
       THEN LET T == [S EXCEPT !.opt[e.field] = ra.lst]
            IN IF ra.ok THEN T ELSE Exit(T)
     ELSE IF setting.v.t = "str"
       THEN LET T == [S EXCEPT !.opt[e.field] = rs.lst]
            IN IF rs.ok THEN T ELSE Exit(T)
     ELSE S

\* lines 344-348
BlurKern(S, c, e) ==
  LET r == config_lookup_string(c, e.key)
      k == parse_conv_kern_lst(r.v)
  IN IF ~r.ok THEN S
     ELSE IF k.ok THEN [S EXCEPT !.opt[e.field] = k.kerns,
                                 !.conv_kern_hasneg = k.hasneg]
     ELSE Fatal(S, e.key)

\* lines 356-362
GlxSwapMethod(S, c, e) ==
  LET r == config_lookup_string(c, e.key)
      T == [S EXCEPT !.opt.glx_swap_method = parse_glx_swap_method(r.v)]
  IN IF r.ok
       THEN IF T.opt.glx_swap_method = 0 - 2 THEN Fatal(T, e.key) ELSE T
       ELSE S

\* one key of lines 186-368
ApplyKey(S, c, e) ==
  CASE e.kind \in {"int", "int_ival"} -> AssignInt(S, c, e)
    [] e.kind = "opaque" -> AssignOpaque(S, c, e)
    [] e.kind = "float" -> AssignFloat(S, c, e)
    [] e.kind = "bool" -> lcfg_lookup_bool(S, c, e)
    [] e.kind = "shadow_enable" -> AssignShadowEnable(S, c, e)
    [] e.kind = "fading_enable" -> AssignFadingEnable(S, c, e)
    [] e.kind = "no_shadow" -> NoShadow(S, c, e)
    [] e.kind = "menu_opacity" -> MenuOpacity(S, c, e)
    [] e.kind = "string" -> AssignString(S, c, e)
    [] e.kind = "vsync" -> Vsync(S, c, e)
    [] e.kind = "backend" -> Backend(S, c, e)
    [] e.kind = "log_level" -> LogLevel(S, c, e)
    [] e.kind = "condlst" -> parse_cfg_condlst(S, c, e)
    [] e.kind = "condlst_opct" -> parse_cfg_condlst_opct(S, c, e)
    [] e.kind = "blur_kern" -> BlurKern(S, c, e)
    [] e.kind = "glx_swap_method" -> GlxSwapMethod(S, c, e)

\* lines 186-368 from key i on: the keys in order, nothing after an exit
RECURSIVE RunKeys(_, _, _)
RunKeys(S, c, i) ==
  IF i > Len(KeySeq) \/ S.exited THEN S
  ELSE RunKeys(ApplyKey(S, c, KeySeq[i]), c, i + 1)

\* one removed option of lines 370-386
DeprecatedWarn(S, c, d) ==
  LET r == IF d.kind = "bool" THEN config_lookup_bool(c, d.key)
                              ELSE config_lookup_float(c, d.key)
  IN IF r.ok /\ (d.truthy => r.v) THEN Warn(S, d.key) ELSE S

RECURSIVE RunDeprecated(_, _, _)
RunDeprecated(S, c, i) ==
  IF i > Len(DeprecatedSeq) THEN S
  ELSE RunDeprecated(DeprecatedWarn(S, c, DeprecatedSeq[i]), c, i + 1)

(***************************************************************************)
(* Window type settings, lines 391-426.                                    *)
(***************************************************************************)
\* mstrjoin("wintypes.", WINTYPES[i])
mstrjoin_wintypes(name) ==
  CASE name = "dock" -> "wintypes.dock"
    [] name = "normal" -> "wintypes.normal"
    [] name = "dropdown_menu" -> "wintypes.dropdown_menu"
    [] name = "popup_menu" -> "wintypes.popup_menu"
    [] name = "dnd" -> "wintypes.dnd"

config_setting_lookup_bool(setting, name) ==
  IF setting.t = "group" /\ name \in DOMAIN setting.v /\ setting.v[name].t = "bool"
    THEN Found(setting.v[name].v) ELSE NotFound

config_setting_lookup_float(setting, name) ==
  IF setting.t = "group" /\ name \in DOMAIN setting.v
    THEN IF setting.v[name].t = "float" THEN Found(setting.v[name].v)
         ELSE IF setting.v[name].t = "int" THEN Found(setting.v[name].v * 100)
         ELSE NotFound
    ELSE NotFound

\* lines 399-418 with the flag set outside the if
WintypeBool_flag_always(S, setting, w, fld) ==
  LET r == config_setting_lookup_bool(setting, WinKeyName(fld))
  IN [S EXCEPT !.wintype_option[w][fld] = IF r.ok THEN r.v ELSE @,
               !.winopt_mask[w][fld] = TRUE]

\* one of the five boolean fields, lines 399-418
WintypeBool(S, setting, w, fld) ==
  LET r == config_setting_lookup_bool(setting, WinKeyName(fld))
  IN IF r.ok THEN [S EXCEPT !.wintype_option[w][fld] = r.v,
                            !.winopt_mask[w][fld] = TRUE]
             ELSE S

RECURSIVE WintypeBools(_, _, _, _)
WintypeBools(S, setting, w, j) ==
  IF j > Len(WinBoolFields) THEN S
  ELSE WintypeBools(WintypeBool(S, setting, w, WinBoolFields[j]), setting, w, j + 1)

\* lines 420-424
WintypeOpacity(S, setting, w) ==
  LET r == config_setting_lookup_float(setting, "opacity")
  IN IF r.ok THEN [S EXCEPT !.wintype_option[w].opacity = normalize_d(r.v),
                            !.winopt_mask[w].opacity = TRUE]
             ELSE S

\* the body of the loop for one window type, lines 392-425
Wintype(S, c, w) ==
  LET setting == config_lookup(c, mstrjoin_wintypes(w))
  IN IF setting.ok
       THEN WintypeOpacity(WintypeBools(S, setting.v, w, 1), setting.v, w)
       ELSE S

RECURSIVE RunWintypes(_, _, _)
RunWintypes(S, c, i) ==
  IF i > NUM_WINTYPES THEN S
  ELSE RunWintypes(Wintype(S, c, WINTYPES[i]), c, i + 1)

\* lines 186-426: everything after the document was read
LoadAll(S, c) ==
  LET T == RunKeys(S, c, 1)
  IN IF T.exited THEN T ELSE RunWintypes(RunDeprecated(T, c, 1), c, 1)

(***************************************************************************)
(* The inputs: documents, the file system, the caller's record.            *)
(***************************************************************************)
IntV(n) == [t |-> "int", v |-> n]
FltV(x) == [t |-> "float", v |-> x]
BoolV(b) == [t |-> "bool", v |-> b]
StrV(s) == [t |-> "str", v |-> s]
ArrV(a) == [t |-> "arr", elems |-> a]
GroupV(g) == [t |-> "group", v |-> g]

SeqsUpTo(E, n) == UNION {[1..k -> E] : k \in 0..n}

\* the values documents give a key that is read the way `kind` says, with
\* arrays of at most len elements
Dom(kind, len) ==
  CASE kind \in {"int", "int_ival"} -> {IntV(7)}
    [] kind = "opaque" -> {FltV(50), FltV(150)}
    [] kind = "float" -> {FltV(150)}
    [] kind = "bool" -> {BoolV(TRUE)}
    [] kind \in {"shadow_enable", "fading_enable", "no_shadow", "deprecated_bool",
                 "win_bool"} -> {BoolV(TRUE), BoolV(FALSE)}
    [] kind = "menu_opacity" -> {FltV(50), FltV(150), IntV(1)}
    [] kind = "win_opacity" -> {FltV(50), FltV(150), FltV(0 - 50)}
    [] kind = "string" -> {StrV("reg")}
    [] kind = "vsync" -> {StrV("opengl"), StrV("bogus")}
    [] kind = "backend" -> {StrV("glx"), StrV("bogus")}
    [] kind = "log_level" -> {StrV("debug"), StrV("bogus")}
    [] kind = "glx_swap_method" -> {StrV("copy"), StrV("bogus")}
    [] kind = "condlst" ->
         {StrV(x) : x \in ValidPatterns \cup {"bogus"}}
           \cup {ArrV(a) : a \in SeqsUpTo(ValidPatterns \cup {"bogus"}, len)}
    [] kind = "condlst_opct" ->
         {StrV(x) : x \in ValidRules \cup {"bogus"}}
           \cup {ArrV(a) : a \in SeqsUpTo(ValidRules \cup {"bogus"}, len)}
    [] kind = "blur_kern" -> {StrV("1,1,-1"), StrV("bogus")}

\* An entry of a document: a top-level key (fld "") or a field of a wintypes
\* section (fld "-" is the section with nothing in it).
Item(key, fld, val) == [key |-> key, fld |-> fld, val |-> val]

KeyItems(i, len) ==
  {Item(KeySeq[i].key, "", v) : v \in Dom(KeySeq[i].kind, len)}

DeprecatedItems(i) ==
  {Item(DeprecatedSeq[i].key, "", v) :
     v \in IF DeprecatedSeq[i].kind = "bool" THEN Dom("deprecated_bool", 0)
                                             ELSE {FltV(50)}}

WinItems(w, fld) ==
  {Item(mstrjoin_wintypes(w), WinKeyName(fld), v) :
     v \in IF fld = "opacity" THEN Dom("win_opacity", 0) ELSE Dom("win_bool", 0)}

\* every entry, list keys with a string or an array of at most one element
AllItems ==
  UNION {KeyItems(i, 1) : i \in 1..Len(KeySeq)}
  \cup UNION {DeprecatedItems(i) : i \in 1..Len(DeprecatedSeq)}
  \cup UNION {WinItems(w, fld) : w \in WintypeSet, fld \in WinFields}
  \cup {Item(mstrjoin_wintypes(w), "-", BoolV(TRUE)) : w \in WintypeSet}

\* the entries that end the load, warn without ending it, or write the
\* window type options from two places
CriticalKeys == {"vsync", "backend", "log-level", "glx-swap-method", "blur-kern",
                 "opacity-rule", "no-dock-shadow", "no-dnd-shadow", "menu-opacity"}
CriticalItems ==
  UNION {KeyItems(i, 1) : i \in {j \in 1..Len(KeySeq) : KeySeq[j].key \in CriticalKeys}}
  \cup WinItems("dock", "shadow") \cup WinItems("dnd", "shadow")
  \cup WinItems("dropdown_menu", "opacity") \cup WinItems("popup_menu", "opacity")
  \cup WinItems("normal", "opacity")

\* the list keys with every array of at most MaxLen elements
ListItems ==
  UNION {KeyItems(i, MaxLen) :
           i \in {j \in 1..Len(KeySeq) : KeySeq[j].kind \in {"condlst", "condlst_opct"}}}

EmptyDoc == [k \in {} |-> BoolV(TRUE)]

\* the document d with the entry it added, or replacing the entry of its key
AddItem(d, it) ==
  LET old == IF it.key \in DOMAIN d THEN d[it.key].v ELSE EmptyDoc
      sect == IF it.fld = "-" THEN old
              ELSE [k \in DOMAIN old \cup {it.fld} |->
                      IF k = it.fld THEN it.val ELSE old[k]]
      val == IF it.fld = "" THEN it.val ELSE GroupV(sect)
  IN [k \in DOMAIN d \cup {it.key} |-> IF k = it.key THEN val ELSE d[k]]

DocsFrom(D, I) == D \cup {AddItem(d, it) : d \in D, it \in I}

\* the documents with at most n entries among I
RECURSIVE DocsOver(_, _)
DocsOver(I, n) ==
  IF n = 0 THEN {EmptyDoc} ELSE DocsFrom(DocsOver(I, n - 1), I)

\* The documents of the model: any MaxPresent entries; MaxCritical entries
\* among the critical ones; a list key with an array of at most MaxLen
\* elements, alone or with one critical entry.
Docs ==
  DocsOver(AllItems, MaxPresent)
  \cup DocsOver(CriticalItems, MaxCritical)
  \cup DocsFrom({AddItem(EmptyDoc, it) : it \in ListItems}, CriticalItems)

\* paths
NoPath == <<>>
EmptyString == <<"">>
config_paths == <<"/compton.conf", "/compton/compton.conf">>
config_filename_legacy == "/.compton.conf"
ExplicitPath == <<"my.conf">>
Homes == {NULL, "", "/home/u"}
\* xdgConfigFind: the file found under the XDG directories, "" when there is none
XdgFound(i) == <<"/xdg", config_paths[i]>>
LegacyPath(home) == <<home, config_filename_legacy>>

Envs ==
  [cpath : {NoPath, ExplicitPath},
   home : Homes,
   xdg : [1..Len(config_paths) -> BOOLEAN],
   openable : SUBSET {ExplicitPath, XdgFound(1), XdgFound(2), LegacyPath("/home/u")}]

xdgConfigFind(e, i) == IF e.xdg[i] THEN XdgFound(i) ELSE EmptyString
fopen(e, p) == IF p \in e.openable THEN "FILE" ELSE NULL

\* the caller's record
FieldKind(fld) == KeySeq[CHOOSE i \in 1..Len(KeySeq) : KeySeq[i].field = fld].kind

DefaultVal(kind) ==
  CASE kind \in {"int", "int_ival"} -> 1
    [] kind = "opaque" -> MulOpaque(100)
    [] kind = "float" -> 0
    [] kind = "bool" -> FALSE
    [] kind = "string" -> NULL
    [] kind \in {"vsync", "backend", "glx_swap_method"} -> 0
    [] kind \in {"condlst", "condlst_opct", "blur_kern"} -> <<>>

CallerVal(kind) ==
  CASE kind \in {"int", "int_ival"} -> 2
    [] kind = "opaque" -> MulOpaque(3)
    [] kind = "float" -> 25
    [] kind = "bool" -> TRUE
    [] kind = "string" -> "cli"
    [] kind \in {"vsync", "backend"} -> 1
    [] kind = "glx_swap_method" -> 2
    [] kind = "condlst" -> <<"name = 'cli'">>
    [] kind = "condlst_opct" -> <<"70:name = 'cli'">>
    [] kind = "blur_kern" -> <<"5x5gaussian">>

WinUnset == [shadow |-> FALSE, fade |-> FALSE, focus |-> FALSE,
             full_shadow |-> FALSE, redir_ignore |-> FALSE, opacity |-> 100]
MaskUnset == [fld \in WinFields |-> FALSE]

\* nothing set by the caller
PreDefaults ==
  [opt |-> [fld \in OptFields |-> DefaultVal(FieldKind(fld))],
   wintype_option |-> [w \in WintypeSet |-> WinUnset],
   winopt_mask |-> [w \in WintypeSet |-> MaskUnset],
   shadow_enable |-> FALSE, fading_enable |-> FALSE, conv_kern_hasneg |-> FALSE,
   log_level |-> string_to_log_level("warn")]

\* a record the command line has written to
PreCaller ==
  [opt |-> [fld \in OptFields |-> CallerVal(FieldKind(fld))],
   wintype_option |->
     [w \in WintypeSet |->
        IF w \in {"dock", "popup_menu"}
          THEN [shadow |-> TRUE, fade |-> TRUE, focus |-> TRUE,
                full_shadow |-> TRUE, redir_ignore |-> TRUE, opacity |-> 80]
          ELSE WinUnset],
   winopt_mask |->
     [w \in WintypeSet |-> [fld \in WinFields |-> w \in {"dock", "popup_menu"}]],
   shadow_enable |-> TRUE, fading_enable |-> TRUE, conv_kern_hasneg |-> TRUE,
   log_level |-> string_to_log_level("error")]

PreStates == {PreDefaults, PreCaller}

\* the files: a document, or text libconfig cannot parse (doc is then what
\* the text was meant to say)
Files == [syntax_ok : {TRUE}, doc : Docs]
           \cup [syntax_ok : {FALSE}, doc : DocsOver(AllItems, MaxPresent)]
\* the files tried with every environment
SmallFiles == [syntax_ok : BOOLEAN, doc : {EmptyDoc}]
\* an explicit path that opens
EnvExplicit == [cpath |-> ExplicitPath, home |-> "/home/u",
                xdg |-> [i \in 1..Len(config_paths) |-> FALSE],
                openable |-> {ExplicitPath}]

(***************************************************************************)
(* The state machine.                                                      *)
(***************************************************************************)
PcValues == {"open", "opened", "load", "returned", "aborted", "exited"}

\* parse_config_libconfig is entered: line 146 calls open_config_file
Init ==
  /\ \/ env \in Envs /\ file \in SmallFiles
     \/ env = EnvExplicit /\ file \in Files
  /\ pre \in PreStates
  /\ pc = "open"
  /\ f = NULL
  /\ path = NoPath
  /\ xdg_i = 1
  /\ tried = <<>>
  /\ cfg = EmptyDoc
  /\ opt = pre.opt
  /\ wintype_option = pre.wintype_option
  /\ winopt_mask = pre.winopt_mask
  /\ shadow_enable = pre.shadow_enable
  /\ fading_enable = pre.fading_enable
  /\ conv_kern_hasneg = pre.conv_kern_hasneg
  /\ log_level = pre.log_level
  /\ log = <<>>
  /\ retval = "none"

outputs == <<opt, wintype_option, winopt_mask, shadow_enable, fading_enable,
             conv_kern_hasneg, log_level>>

\* open_config_file, lines 49-54: the path the caller gave
OpenExplicit ==
  /\ pc = "open"
  /\ env.cpath # NoPath
  /\ tried' = Append(tried, env.cpath)
  /\ f' = fopen(env, env.cpath)
  /\ path' = IF f' # NULL THEN env.cpath ELSE path
  /\ pc' = "opened"
  /\ UNCHANGED <<env, file, pre, xdg_i, cfg, outputs, log, retval>>

\* open_config_file, lines 56-66: one round of the loop over config_paths
OpenXdg ==
  /\ pc = "open"
  /\ env.cpath = NoPath
  /\ xdg_i <= Len(config_paths)
  /\ LET p == xdgConfigFind(env, xdg_i)
     IN /\ tried' = Append(tried, p)
        /\ f' = fopen(env, p)
        /\ path' = IF f' # NULL THEN p ELSE path
        /\ IF f' # NULL THEN pc' = "opened" /\ xdg_i' = xdg_i
                        ELSE pc' = pc /\ xdg_i' = xdg_i + 1
  /\ UNCHANGED <<env, file, pre, cfg, outputs, log, retval>>

\* lines 68-81 without the strlen(home) test
OpenLegacy_no_strlen ==
  /\ pc = "open"
  /\ env.cpath = NoPath
  /\ xdg_i > Len(config_paths)
  /\ IF env.home # NULL
       THEN /\ tried' = Append(tried, LegacyPath(env.home))
            /\ f' = fopen(env, LegacyPath(env.home))
            /\ path' = IF f' # NULL THEN LegacyPath(env.home) ELSE path
       ELSE /\ f' = NULL
            /\ UNCHANGED <<tried, path>>
  /\ pc' = "opened"
  /\ UNCHANGED <<env, file, pre, xdg_i, cfg, outputs, log, retval>>

\* open_config_file, lines 68-81: the legacy file under $HOME
OpenLegacy ==
  /\ pc = "open"
  /\ env.cpath = NoPath
  /\ xdg_i > Len(config_paths)
  /\ IF env.home # NULL /\ env.home # ""
       THEN /\ tried' = Append(tried, LegacyPath(env.home))
            /\ f' = fopen(env, LegacyPath(env.home))
            /\ path' = IF f' # NULL THEN LegacyPath(env.home) ELSE path
       ELSE /\ f' = NULL
            /\ UNCHANGED <<tried, path>>
  /\ pc' = "opened"
  /\ UNCHANGED <<env, file, pre, xdg_i, cfg, outputs, log, retval>>

\* lines 147-154 without the abort for an explicit path
OpenFailed_no_abort ==
  /\ pc = "opened"
  /\ f = NULL
  /\ pc' = "returned"
  /\ retval' = "NULL"
  /\ UNCHANGED <<env, file, pre, f, path, xdg_i, tried, cfg, outputs, log>>

\* lines 147-154: no file
OpenFailed ==
  /\ pc = "opened"
  /\ f = NULL
  /\ IF env.cpath # NoPath
       THEN /\ log' = Append(log, [lvl |-> "fatal", key |-> "config_file"])
            /\ pc' = "aborted"
            /\ UNCHANGED retval
       ELSE /\ pc' = "returned"
            /\ retval' = "NULL"
            /\ UNCHANGED log
  /\ UNCHANGED <<env, file, pre, f, path, xdg_i, tried, cfg, outputs>>

\* lines 156-181 without the test of read_result
ReadConfig_ignore_result ==
  /\ pc = "opened"
  /\ f # NULL
  /\ f' = NULL
  /\ cfg' = file.doc
  /\ pc' = "load"
  /\ UNCHANGED <<env, file, pre, xdg_i, tried, outputs, log, path, retval>>

\* lines 156-181: config_read, and the return on a syntax error
ReadConfig ==
  /\ pc = "opened"
  /\ f # NULL
  /\ f' = NULL
  /\ IF ~file.syntax_ok
       THEN /\ log' = Append(log, [lvl |-> "error", key |-> "config_read"])
            /\ path' = NoPath
            /\ retval' = "NULL"
            /\ pc' = "returned"
            /\ UNCHANGED cfg
       ELSE /\ cfg' = file.doc
            /\ pc' = "load"
            /\ UNCHANGED <<log, path, retval>>
  /\ UNCHANGED <<env, file, pre, xdg_i, tried, outputs>>

Bundle ==
  [opt |-> opt, wintype_option |-> wintype_option, winopt_mask |-> winopt_mask,
   shadow_enable |-> shadow_enable, fading_enable |-> fading_enable,
   conv_kern_hasneg |-> conv_kern_hasneg, log_level |-> log_level, log |-> log,
   exited |-> FALSE]

\* lines 186-429: the options, the warnings, the window types, the return
LoadOptions ==
  /\ pc = "load"
  /\ \E S \in {LoadAll(Bundle, cfg)} :
        /\ opt' = S.opt
        /\ wintype_option' = S.wintype_option
        /\ winopt_mask' = S.winopt_mask
        /\ shadow_enable' = S.shadow_enable
        /\ fading_enable' = S.fading_enable
        /\ conv_kern_hasneg' = S.conv_kern_hasneg
        /\ log_level' = S.log_level
        /\ log' = S.log
        /\ IF S.exited THEN pc' = "exited" /\ UNCHANGED retval
                       ELSE pc' = "returned" /\ retval' = "path"
  /\ UNCHANGED <<env, file, pre, f, path, xdg_i, tried, cfg>>

Next ==
  \/ OpenExplicit
  \/ OpenXdg
  \/ OpenLegacy
  \/ OpenFailed
  \/ ReadConfig
  \/ LoadOptions

Spec == Init /\ [][Next]_vars

TypeOK ==
  /\ pc \in PcValues
  /\ f \in {NULL, "FILE"}
  /\ retval \in {"none", "NULL", "path"}
  /\ xdg_i \in 1..(Len(config_paths) + 1)

(***************************************************************************)
(* Vocabulary of the properties.                                           *)
(***************************************************************************)
\* parse_config_libconfig returned the path: the whole document was applied
Loaded == pc = "returned" /\ retval = "path"
\* the document was read and lines 186-429 ran, to the end or to an exit
Ran == Loaded \/ pc = "exited"
Final == pc \in {"returned", "aborted", "exited"}

OutputsUntouched ==
  /\ opt = pre.opt
  /\ wintype_option = pre.wintype_option
  /\ winopt_mask = pre.winopt_mask
  /\ shadow_enable = pre.shadow_enable
  /\ fading_enable = pre.fading_enable
  /\ conv_kern_hasneg = pre.conv_kern_hasneg
  /\ log_level = pre.log_level

HasStr(c, key) == key \in DOMAIN c /\ c[key].t = "str"
HasBool(c, key) == key \in DOMAIN c /\ c[key].t = "bool"
HasNum(c, key) == key \in DOMAIN c /\ c[key].t \in {"int", "float"}

\* the value of key is a string its classifier does not know
Unrecognized(c, key) ==
  /\ HasStr(c, key)
  /\ c[key].v \notin
       CASE key = "vsync" -> {VSYNC_STRS[i] : i \in 1..Len(VSYNC_STRS)}
         [] key = "backend" -> {BACKEND_STRS[i] : i \in 1..Len(BACKEND_STRS)}
         [] key = "glx-swap-method" ->
              {SWAP_METHOD_STRS[i] : i \in 1..Len(SWAP_METHOD_STRS)}
         [] key = "log-level" -> {LOG_LEVEL_STRS[i] : i \in 1..Len(LOG_LEVEL_STRS)}

\* opacity-rule holds a rule that does not parse
HasBadRule(c) ==
  /\ "opacity-rule" \in DOMAIN c
  /\ \/ c["opacity-rule"].t = "str" /\ c["opacity-rule"].v \notin ValidRules
     \/ /\ c["opacity-rule"].t = "arr"
        /\ \E i \in 1..Len(c["opacity-rule"].elems) :
             c["opacity-rule"].elems[i] \notin ValidRules

HasBadKernel(c) == HasStr(c, "blur-kern") /\ c["blur-kern"].v \notin ValidKernels

\* some key of the document ends the load
HasFatal(c) ==
  \/ Unrecognized(c, "vsync") \/ Unrecognized(c, "backend")
  \/ Unrecognized(c, "glx-swap-method") \/ HasBadRule(c) \/ HasBadKernel(c)

\* what key number i of KeySeq writes still holds the caller's value
KeyUntouched(i) ==
  LET e == KeySeq[i]
  IN CASE e.kind = "shadow_enable" -> shadow_enable = pre.shadow_enable
       [] e.kind = "fading_enable" -> fading_enable = pre.fading_enable
       [] e.kind = "log_level" -> log_level = pre.log_level
       [] e.kind = "no_shadow" ->
            /\ wintype_option[e.field].shadow = pre.wintype_option[e.field].shadow
            /\ winopt_mask[e.field].shadow = pre.winopt_mask[e.field].shadow
       [] e.kind = "menu_opacity" ->
            \A w \in {"dropdown_menu", "popup_menu"} :
              /\ wintype_option[w].opacity = pre.wintype_option[w].opacity
              /\ winopt_mask[w].opacity = pre.winopt_mask[w].opacity
       [] e.kind = "blur_kern" ->
            /\ opt[e.field] = pre.opt[e.field]
            /\ conv_kern_hasneg = pre.conv_kern_hasneg
       [] OTHER -> opt[e.field] = pre.opt[e.field]

\* the number of warnings about a key
Warnings(key) ==
  Cardinality({i \in 1..Len(log) : log[i].lvl = "warn" /\ log[i].key = key})

\* the deprecated keys write this field of this window type
LegacyWrites(c, w, fld) ==
  \/ w = "dock" /\ fld = "shadow" /\ HasBool(c, "no-dock-shadow")
  \/ w = "dnd" /\ fld = "shadow" /\ HasBool(c, "no-dnd-shadow")
  \/ w \in {"dropdown_menu", "popup_menu"} /\ fld = "opacity" /\ HasNum(c, "menu-opacity")

\* section wintypes.<w> of the document gives this field a value of its type
SectionHas(c, w, fld) ==
  LET key == mstrjoin_wintypes(w)
  IN /\ key \in DOMAIN c
     /\ c[key].t = "group"
     /\ WinKeyName(fld) \in DOMAIN c[key].v
     /\ c[key].v[WinKeyName(fld)].t \in
          IF fld = "opacity" THEN {"int", "float"} ELSE {"bool"}

\* a number of the document read as a double
NumValue(x) == IF x.t = "int" THEN x.v * 100 ELSE x.v

\* the value the section gives the field
SectionValue(c, w, fld) ==
  LET x == c[mstrjoin_wintypes(w)].v[WinKeyName(fld)]
  IN IF fld = "opacity" THEN NumValue(x) ELSE x.v

\* nothing the loader does after key number p of KeySeq has happened: the
\* later keys, the warnings for removed options, the wintypes sections
NothingAfter(p) ==
  /\ \A i \in (p + 1)..Len(KeySeq) : KeyUntouched(i)
  /\ \A i \in 1..Len(DeprecatedSeq) : Warnings(DeprecatedSeq[i].key) = 0
  /\ \A w \in WintypeSet, fld \in WinFields :
       IF LegacyWrites(cfg, w, fld) /\ KeyPos("menu-opacity") <= p
         THEN /\ winopt_mask[w][fld]
              /\ wintype_option[w][fld] =
                   IF fld = "shadow" THEN FALSE ELSE NumValue(cfg["menu-opacity"])
         ELSE /\ wintype_option[w][fld] = pre.wintype_option[w][fld]
              /\ winopt_mask[w][fld] = pre.winopt_mask[w][fld]

(***************************************************************************)
(* C1                                                                      *)
(***************************************************************************)
\* C1, as the specification states it: when opacity-rule holds a rule that
\* does not parse and the process has exited, a valid backend key of the
\* document has not been applied, so the backend field holds the caller's value.
C1_BackendNotApplied ==
  (pc = "exited" /\ HasBadRule(cfg) /\ HasStr(cfg, "backend")
     /\ ~Unrecognized(cfg, "backend"))
    => opt.backend = pre.opt.backend

\* C1, amended: a rule of opacity-rule that does not parse ends the process,
\* and nothing the loader does after opacity-rule in its own fixed sequence
\* has happened (unredir-if-possible-exclude ... xrender-sync-fence, the
\* warnings for removed options, the wintypes sections).  The keys the loader
\* looks up before opacity-rule are applied wherever they stand in the
\* document: a valid backend is applied unless an unrecognized vsync ended
\* the load before it.
C1_ExitBeforeLaterKeys ==
  (Ran /\ HasBadRule(cfg)) =>
    /\ pc = "exited"
    /\ NothingAfter(KeyPos("opacity-rule"))
    /\ (HasStr(cfg, "backend") /\ ~Unrecognized(cfg, "vsync"))
         => opt.backend = parse_backend(cfg["backend"].v)

\* the process exited on a bad opacity rule with a valid backend already applied
C1_Witness ==
  /\ pc = "exited"
  /\ HasBadRule(cfg)
  /\ HasStr(cfg, "backend") /\ ~Unrecognized(cfg, "backend")
  /\ opt.backend = parse_backend(cfg["backend"].v)
  /\ opt.backend # pre.opt.backend

(***************************************************************************)
(* C2                                                                      *)
(***************************************************************************)
ScalarKinds == {"int", "int_ival", "opaque", "float", "bool", "string", "vsync",
                "backend", "glx_swap_method", "log_level", "shadow_enable",
                "fading_enable"}

\* C2: when parse_config_libconfig has returned, every scalar, boolean,
\* string or enum key that the document does not contain has left its field
\* (or shadow_enable, fading_enable, the log level) at the caller's value.
C2_AbsentKeyKeepsField ==
  pc = "returned" =>
    \A i \in 1..Len(KeySeq) :
      (KeySeq[i].kind \in ScalarKinds /\ KeySeq[i].key \notin DOMAIN cfg)
        => KeyUntouched(i)

\* a load that applied fade-delta and found no-fading-openclose absent
C2_Witness ==
  /\ Loaded
  /\ "fade-delta" \in DOMAIN cfg
  /\ opt.fade_delta # pre.opt.fade_delta
  /\ "no-fading-openclose" \notin DOMAIN cfg
  /\ opt.no_fading_openclose = pre.opt.no_fading_openclose

(***************************************************************************)
(* C3                                                                      *)
(***************************************************************************)
\* a key of KeySeq after position p that only copies its value is applied
SimpleApplied(i) ==
  LET e == KeySeq[i]
  IN (e.key \in DOMAIN cfg) =>
       CASE e.kind \in {"int", "int_ival"} /\ cfg[e.key].t = "int" ->
              opt[e.field] = cfg[e.key].v
         [] e.kind = "bool" /\ cfg[e.key].t = "bool" -> opt[e.field] = cfg[e.key].v
         [] e.kind = "glx_swap_method" /\ cfg[e.key].t = "str" ->
              opt[e.field] = parse_glx_swap_method(cfg[e.key].v)
         [] OTHER -> TRUE

\* C3: an unrecognized vsync, backend or glx-swap-method ends the process and
\* nothing the loader does after that key has happened; an unrecognized
\* log-level never ends the load, leaves the log level alone, warns, and the
\* keys after it are applied.
C3_EnumErrors ==
  /\ \A key \in {"vsync", "backend", "glx-swap-method"} :
       (Ran /\ Unrecognized(cfg, key)) =>
         pc = "exited" /\ NothingAfter(KeyPos(key))
  /\ (Ran /\ Unrecognized(cfg, "log-level")) =>
       /\ log_level = pre.log_level
       /\ ~HasFatal(cfg) =>
            /\ Loaded
            /\ Warnings("log-level") = 1
            /\ \A i \in (KeyPos("log-level") + 1)..Len(KeySeq) : SimpleApplied(i)

\* the process exited on an unrecognized vsync with a backend key in the document
C3_Witness ==
  /\ pc = "exited"
  /\ Unrecognized(cfg, "vsync")
  /\ HasStr(cfg, "backend")
  /\ opt.backend = pre.opt.backend
  /\ opt.vsync # pre.opt.vsync

(***************************************************************************)
(* C4                                                                      *)
(***************************************************************************)
HomeUsable == env.home # NULL /\ env.home # ""

\* the files open_config_file may try when no path is given, in order
Candidates ==
  [i \in 1..Len(config_paths) |-> IF env.xdg[i] THEN XdgFound(i) ELSE EmptyString]
    \o IF HomeUsable THEN <<LegacyPath(env.home)>> ELSE <<>>

NoCandidateOpens == \A i \in 1..Len(Candidates) : Candidates[i] \notin env.openable

\* C4: an explicit path that cannot be opened ends the process with a fatal
\* message: no other file is tried, nothing is returned, the record is not
\* touched.  With no explicit path and no candidate that opens, the load
\* returns NULL without ending the process, and the record and the flags
\* are the caller's.
C4_OpenFailure ==
  /\ (env.cpath # NoPath /\ env.cpath \notin env.openable /\ pc # "open") =>
       /\ tried = <<env.cpath>>
       /\ pc \in {"opened", "aborted"}
       /\ pc = "opened" => ENABLED OpenFailed
       /\ pc = "aborted" => log = <<[lvl |-> "fatal", key |-> "config_file"]>>
       /\ retval = "none"
       /\ OutputsUntouched
  /\ (env.cpath = NoPath /\ NoCandidateOpens /\ Final) =>
       /\ pc = "returned"
       /\ retval = "NULL"
       /\ log = <<>>
       /\ OutputsUntouched

\* the process aborted on an explicit path that does not open, although a
\* search candidate would have opened
C4_Witness ==
  /\ pc = "aborted"
  /\ env.cpath \notin env.openable
  /\ XdgFound(1) \in env.openable /\ env.xdg[1]

(***************************************************************************)
(* C5                                                                      *)
(***************************************************************************)
IsPrefix(a, b) == Len(a) <= Len(b) /\ \A i \in 1..Len(a) : a[i] = b[i]

\* C5: with no explicit path the files are tried in the order /compton.conf,
\* /compton/compton.conf (XDG search), $HOME/.compton.conf, the legacy one
\* only when HOME is set and not empty; a file is tried only after all the
\* earlier ones failed, and the first that opens is returned with its path.
\* With an explicit path only that path is tried, and it is the path returned.
C5_SearchOrder ==
  /\ env.cpath = NoPath =>
       /\ IsPrefix(tried, Candidates)
       /\ \A i \in 1..(Len(tried) - 1) : tried[i] \notin env.openable
       /\ pc = "opened" =>
            IF NoCandidateOpens
              THEN f = NULL /\ tried = Candidates /\ path = NoPath
              ELSE /\ f = "FILE"
                   /\ path = tried[Len(tried)]
                   /\ path \in env.openable
  /\ (env.cpath # NoPath /\ pc # "open") =>
       /\ tried = <<env.cpath>>
       /\ pc = "opened" =>
            IF env.cpath \in env.openable THEN f = "FILE" /\ path = env.cpath
                                          ELSE f = NULL /\ path = NoPath

\* the legacy file was opened after both XDG candidates failed
C5_Witness ==
  /\ pc = "opened"
  /\ env.cpath = NoPath
  /\ Len(tried) = Len(config_paths) + 1
  /\ f = "FILE"
  /\ path = LegacyPath(env.home)

(***************************************************************************)
(* C6                                                                      *)
(***************************************************************************)
\* C6: a located file with a syntax error makes the load report the error
\* and return NULL without ending the process; the record, the flags and the
\* pattern lists are the caller's.
C6_SyntaxError ==
  (~file.syntax_ok /\ Final /\ tried # <<>> /\ tried[Len(tried)] \in env.openable) =>
    /\ pc = "returned"
    /\ retval = "NULL"
    /\ log = <<[lvl |-> "error", key |-> "config_read"]>>
    /\ OutputsUntouched

\* the load returned NULL on a file that holds keys but does not parse
C6_Witness ==
  /\ pc = "returned"
  /\ retval = "NULL"
  /\ ~file.syntax_ok
  /\ "fade-delta" \in DOMAIN file.doc
  /\ log # <<>>

(***************************************************************************)
(* C7                                                                      *)
(***************************************************************************)
NoDockShadowTrue(c) == HasBool(c, "no-dock-shadow") /\ c["no-dock-shadow"].v

\* C7, as the specification states it: after a completed load of a document
\* with no-dock-shadow = true, the shadow override of dock is false, its
\* explicit flag is true, and one warning was given for the key.
C7_DockShadowFalse ==
  (Loaded /\ NoDockShadowTrue(cfg)) =>
    /\ wintype_option["dock"].shadow = FALSE
    /\ winopt_mask["dock"].shadow
    /\ Warnings("no-dock-shadow") = 1

\* C7, amended: after a completed load of a document with no-dock-shadow =
\* true, the explicit flag of dock's shadow override is true and one warning
\* was given for the key; the override is false unless section wintypes.dock
\* of the document sets shadow, and then it is the section's value.
C7_DockShadowUnlessSection ==
  (Loaded /\ NoDockShadowTrue(cfg)) =>
    /\ winopt_mask["dock"].shadow
    /\ Warnings("no-dock-shadow") = 1
    /\ wintype_option["dock"].shadow =
         IF SectionHas(cfg, "dock", "shadow") THEN SectionValue(cfg, "dock", "shadow")
                                              ELSE FALSE

\* a completed load with no-dock-shadow = true and no wintypes.dock section,
\* on a record whose dock shadow override was true
C7_Witness ==
  /\ Loaded
  /\ NoDockShadowTrue(cfg)
  /\ ~SectionHas(cfg, "dock", "shadow")
  /\ pre.wintype_option["dock"].shadow
  /\ wintype_option["dock"].shadow = FALSE

(***************************************************************************)
(* C8                                                                      *)
(***************************************************************************)
IsValidPattern(x) == x \in ValidPatterns

\* the list a condition-list key must give: the patterns of the array in
\* array order, before what the caller's list held
ExpectedList(arr, old) == SelectSeq(arr, IsValidPattern) \o old

\* C8: after a completed load, each of the six condition-list keys given as
\* the string s has made its list what the array <<s>> makes it, and given
\* as an array has put the array's patterns into the list in array order.
C8_ListOrder ==
  Loaded =>
    \A i \in 1..Len(KeySeq) :
      LET e == KeySeq[i]
      IN (e.kind = "condlst" /\ e.key \in DOMAIN cfg) =>
           opt[e.field] =
             ExpectedList(IF cfg[e.key].t = "str" THEN <<cfg[e.key].v>>
                                                  ELSE cfg[e.key].elems,
                          pre.opt[e.field])

\* a completed load of shadow-exclude given as an array of two different patterns
C8_Witness ==
  /\ Loaded
  /\ "shadow-exclude" \in DOMAIN cfg
  /\ cfg["shadow-exclude"].t = "arr"
  /\ cfg["shadow-exclude"].elems = <<"class_g = 'x'", "name = 'y'">>
  /\ opt.shadow_blacklist = <<"class_g = 'x'", "name = 'y'">> \o pre.opt.shadow_blacklist

(***************************************************************************)
(* C9                                                                      *)
(***************************************************************************)
NoLegacyKeys(c) ==
  {"no-dock-shadow", "no-dnd-shadow", "menu-opacity"} \cap DOMAIN c = {}

\* C9: after a completed load of a document without no-dock-shadow,
\* no-dnd-shadow and menu-opacity, each field of each window type that its
\* wintypes section sets holds the document's value (opacity clamped into
\* [0, 1]) with its explicit flag true, and each other field and flag holds
\* the caller's value.
C9_WintypeFields ==
  (Loaded /\ NoLegacyKeys(cfg)) =>
    \A w \in WintypeSet, fld \in WinFields :
      IF SectionHas(cfg, w, fld)
        THEN /\ winopt_mask[w][fld]
             /\ wintype_option[w][fld] =
                  IF fld = "opacity" THEN normalize_d(SectionValue(cfg, w, fld))
                                     ELSE SectionValue(cfg, w, fld)
        ELSE /\ winopt_mask[w][fld] = pre.winopt_mask[w][fld]
             /\ wintype_option[w][fld] = pre.wintype_option[w][fld]

\* a completed load of the document that holds only wintypes.normal.opacity = 0.5
C9_Witness ==
  /\ Loaded
  /\ DOMAIN cfg = {"wintypes.normal"}
  /\ DOMAIN cfg["wintypes.normal"].v = {"opacity"}
  /\ cfg["wintypes.normal"].v["opacity"] = FltV(50)
  /\ wintype_option["normal"].opacity = 50
  /\ winopt_mask["normal"].opacity
  /\ ~pre.winopt_mask["normal"].opacity

(***************************************************************************)
(* C10                                                                     *)
(***************************************************************************)
\* C10: after a completed load, every opacity override this load has set,
\* from a wintypes section or from menu-opacity, lies in [0, 1].
C10_OpacityClamped ==
  Loaded =>
    \A w \in WintypeSet :
      (SectionHas(cfg, w, "opacity") \/ LegacyWrites(cfg, w, "opacity")) =>
        /\ winopt_mask[w].opacity
        /\ wintype_option[w].opacity \in 0..100

====
